---------------------------- MODULE Spec2Model ----------------------------
(***************************************************************************)
(* SpheremapTool (src/src/main.cpp): conversion of a six-image cubemap     *)
(* into a parabolic "spheremap".                                           *)
(*                                                                         *)
(* The C++ float values are modelled by exact real arithmetic.  Every      *)
(* value the program computes lies in a field Q(sqrt r) for one rational   *)
(* r per output pixel (r is rev_p, the only argument sqrtf ever gets), so  *)
(* a float is a record [a, b, r] standing for a + b*sqrt(r) with rational  *)
(* a, b, r.  A rational is a record [n, d] in lowest terms with d > 0;     *)
(* [n |-> 0, d |-> 0] in the field a is the NaN that 0.0f/0.0f produces.   *)
(***************************************************************************)
EXTENDS Integers, Sequences, FiniteSets

\* ------------------------------------------------------------------ bounds

\* Largest output_size given on the command line.
MaxOutputSize == 5
\* Largest width and height of a decoded face image.
MaxDim == 2
\* Direction components handed to computeTexCoords on its own: -DirBound..DirBound.
DirBound == 2
\* ------------------------------------------------------------- rationals

IAbs(i) == IF i < 0 THEN -i ELSE i

ISign(i) == IF i < 0 THEN -1 ELSE IF i > 0 THEN 1 ELSE 0

RECURSIVE GCD(_, _)
GCD(i, j) == IF j = 0 THEN i ELSE GCD(j, i % j)

\* n/d in lowest terms, d > 0 (d # 0 required).
Rat(n, d) ==
    LET g == GCD(IAbs(n), IAbs(d))
        s == IF d < 0 THEN -1 ELSE 1
    IN  [n |-> (s * n) \div g, d |-> (s * d) \div g]

RInt(i) == [n |-> i, d |-> 1]
RZero == RInt(0)
RAdd(p, q) == Rat(p.n * q.d + q.n * p.d, p.d * q.d)
RNeg(p) == [n |-> -p.n, d |-> p.d]
RSub(p, q) == RAdd(p, RNeg(q))
RMul(p, q) == Rat(p.n * q.n, p.d * q.d)
RInv(p) == Rat(p.d, p.n)
RSign(p) == ISign(p.n)
RCmp(p, q) == ISign(p.n * q.d - q.n * p.d)

\* ---------------------------------------------------------------- floats

\* The value of 0.0f / 0.0f.
NaN == [a |-> [n |-> 0, d |-> 0], b |-> [n |-> 0, d |-> 0], r |-> [n |-> 0, d |-> 0]]
IsNaN(p) == p.a.d = 0

\* a + b*sqrt(r), with r dropped when the irrational part vanishes.
Flt(a, b, r) ==
    IF b = RZero \/ r = RZero
        THEN [a |-> a, b |-> RZero, r |-> RZero]
        ELSE [a |-> a, b |-> b, r |-> r]

FRat(q) == Flt(q, RZero, RZero)
FInt(i) == FRat(RInt(i))
FHalf == FRat(Rat(1, 2))

\* The r of the field two operands live in.
FBase(p, q) == IF p.b # RZero THEN p.r ELSE q.r

FNeg(p) == IF IsNaN(p) THEN NaN ELSE Flt(RNeg(p.a), RNeg(p.b), p.r)

FAdd(p, q) ==
    IF IsNaN(p) \/ IsNaN(q) THEN NaN
    ELSE Flt(RAdd(p.a, q.a), RAdd(p.b, q.b), FBase(p, q))

FSub(p, q) == FAdd(p, FNeg(q))

FMul(p, q) ==
    IF IsNaN(p) \/ IsNaN(q) THEN NaN
    ELSE LET r == FBase(p, q)
         IN  Flt(RAdd(RMul(p.a, q.a), RMul(RMul(p.b, q.b), r)),
                 RAdd(RMul(p.a, q.b), RMul(p.b, q.a)), r)

\* The sign of a + b*sqrt(r): -1, 0 or 1.
FSign(p) ==
    LET sa == RSign(p.a)
        sb == RSign(p.b)
    IN  IF sb = 0 THEN sa
        ELSE IF sa = 0 \/ sa = sb THEN sb
        ELSE LET c == RCmp(RMul(p.a, p.a), RMul(RMul(p.b, p.b), p.r))
             IN  IF c > 0 THEN sa ELSE IF c < 0 THEN sb ELSE 0

\* Comparisons; every comparison with a NaN is false.
FLess(p, q) == ~IsNaN(p) /\ ~IsNaN(q) /\ FSign(FSub(p, q)) < 0
FGeq(p, q) == ~IsNaN(p) /\ ~IsNaN(q) /\ FSign(FSub(p, q)) >= 0

\* std::abs
FAbs(p) == IF IsNaN(p) THEN NaN ELSE IF FSign(p) < 0 THEN FNeg(p) ELSE p

\* p / q.  The only division by zero the program can make is 0/0 (the divisor
\* of computeTexCoords is the largest magnitude), which is NaN.
FDiv(p, q) ==
    IF IsNaN(p) \/ IsNaN(q) \/ FSign(q) = 0 THEN NaN
    ELSE LET r == FBase(p, q)
             den == RSub(RMul(q.a, q.a), RMul(RMul(q.b, q.b), r))
             conj == Flt(q.a, RNeg(q.b), r)
         IN  FMul(FMul(p, conj), FRat(RInv(den)))

\* The integer square root of i >= 0 when i is a perfect square, else -1.
ISqrt(i) == IF \E k \in 0..i : k * k = i THEN CHOOSE k \in 0..i : k * k = i ELSE -1

\* std::sqrtf of a rational p >= 0: rational when p is the square of a
\* rational, else the generator of Q(sqrt p).
FSqrt(p) ==
    IF IsNaN(p) THEN NaN
    ELSE IF ISqrt(p.a.n) >= 0 /\ ISqrt(p.a.d) >= 0
        THEN FRat(Rat(ISqrt(p.a.n), ISqrt(p.a.d)))
        ELSE Flt(RZero, RInt(1), p.a)

\* static_cast<int>(p) for a p within the range of int: truncation toward zero.
\* k is found by search, bounded by the rational part and the size of b*sqrt(r).
FTrunc(p) ==
    LET q == FAbs(p)
        hi == IAbs(q.a.n) + (IAbs(q.b.n) + 1) * (IAbs(q.r.n) + 1) + 1
        k == CHOOSE i \in 0..hi : FGeq(q, FInt(i)) /\ FLess(q, FInt(i + 1))
    IN  IF FSign(p) < 0 THEN -k ELSE k

IMin(i, j) == IF j < i THEN j ELSE i

\* --------------------------------------------------------------- Cubemap

NUM_FACES == 6
FACE_POS_X == 0
FACE_NEG_X == 1
FACE_POS_Y == 2
FACE_NEG_Y == 3
FACE_POS_Z == 4
FACE_NEG_Z == 5
Faces == 0..(NUM_FACES - 1)

\* What major_axis, tmp_s, tmp_t and m hold when no branch assigned them: the
\* three >= tests of computeTexCoords all fail only on a NaN component.
Unassigned == -1

\* MajorAxis with the first test strict: a tie of x with y or z leaves x.
MajorAxisStrict(a) ==
    IF FLess(a[2], a[1]) /\ FLess(a[3], a[1]) THEN 0
    ELSE IF FGeq(a[2], a[1]) /\ FGeq(a[2], a[3]) THEN 1
    ELSE IF FGeq(a[3], a[1]) /\ FGeq(a[3], a[2]) THEN 2
    ELSE Unassigned

\* Cubemap::computeTexCoords, lines 69-80: the major axis.
MajorAxis(a) ==
    IF FGeq(a[1], a[2]) /\ FGeq(a[1], a[3]) THEN 0
    ELSE IF FGeq(a[2], a[1]) /\ FGeq(a[2], a[3]) THEN 1
    ELSE IF FGeq(a[3], a[1]) /\ FGeq(a[3], a[2]) THEN 2
    ELSE Unassigned

\* Cubemap::computeTexCoords, lines 82-85: the face of a major axis.
FaceOfAxis(v, axis) ==
    IF axis = Unassigned THEN Unassigned
    ELSE IF FLess(v[axis + 1], FInt(0)) THEN axis * 2 + 1 ELSE axis * 2

\* FaceProjection with +X divided by |z|.
FaceProjectionWrongDivisor(face, x, y, z, a) ==
    CASE face = 0 -> <<FNeg(z), FNeg(y), a[3]>>
      [] face = 1 -> <<z, FNeg(y), a[1]>>
      [] face = 2 -> <<x, z, a[2]>>
      [] face = 3 -> <<x, FNeg(z), a[2]>>
      [] face = 4 -> <<x, FNeg(y), a[3]>>
      [] face = 5 -> <<FNeg(x), FNeg(y), a[3]>>
      [] OTHER -> <<NaN, NaN, NaN>>

\* FaceProjection with the -Y row a copy of the +Y row.
FaceProjectionCopiedRow(face, x, y, z, a) ==
    CASE face = 0 -> <<FNeg(z), FNeg(y), a[1]>>
      [] face = 1 -> <<z, FNeg(y), a[1]>>
      [] face = 2 -> <<x, z, a[2]>>
      [] face = 3 -> <<x, z, a[2]>>
      [] face = 4 -> <<x, FNeg(y), a[3]>>
      [] face = 5 -> <<FNeg(x), FNeg(y), a[3]>>
      [] OTHER -> <<NaN, NaN, NaN>>

\* Cubemap::computeTexCoords, lines 87-95: <<tmp_s, tmp_t, m>> of a face.
FaceProjection(face, x, y, z, a) ==
    CASE face = 0 -> <<FNeg(z), FNeg(y), a[1]>>
      [] face = 1 -> <<z, FNeg(y), a[1]>>
      [] face = 2 -> <<x, z, a[2]>>
      [] face = 3 -> <<x, FNeg(z), a[2]>>
      [] face = 4 -> <<x, FNeg(y), a[3]>>
      [] face = 5 -> <<FNeg(x), FNeg(y), a[3]>>
      [] OTHER -> <<NaN, NaN, NaN>>

\* Cubemap::computeTexCoords: [face, s, t] for the direction (x, y, z).
computeTexCoords(x, y, z) ==
    LET v == <<x, y, z>>
        a == <<FAbs(x), FAbs(y), FAbs(z)>>
        major_axis == FaceOfAxis(v, MajorAxis(a))
        tmp == FaceProjection(major_axis, x, y, z, a)
    IN  [face |-> major_axis,
         s |-> FMul(FHalf, FAdd(FDiv(tmp[1], tmp[3]), FInt(1))),
         t |-> FMul(FHalf, FAdd(FDiv(tmp[2], tmp[3]), FInt(1)))]

\* ----------------------------------------------------------------- Image

\* Image(): no data, width = height = -1.
DefaultImage == [width |-> -1, height |-> -1, null |-> TRUE, data |-> <<>>]

\* The packed colour of texel k (row-major) of the file of face f.  The files'
\* texels are pairwise distinct and none is 0, the value a fresh out_data holds.
Color(f, k) == (f + 1) * 100 + k

\* What an int that was never written may hold (width and height after a
\* failed stbi_load, the result of static_cast<int> on a NaN).
IndetInts == {-1, 0, MaxDim}

\* Image(filename): stbi_load gives width, height and 4-channel data, or
\* returns null and leaves width and height unwritten.
Decode(f, file) ==
    IF file.ok
        THEN {[width |-> file.width, height |-> file.height, null |-> FALSE,
               data |-> [k \in 1..(file.width * file.height) |-> Color(f, k - 1)]]}
        ELSE {[width |-> w, height |-> h, null |-> TRUE, data |-> <<>>] :
                  w \in IndetInts, h \in IndetInts}

\* ------------------------------------------------- readTexel / sampleFace

\* How a call ends: with a value, in a failed assert, or in a crash.
Returned(c) == [kind |-> "value", value |-> c]
AssertFailed == [kind |-> "assert", value |-> 0]
Crashed == [kind |-> "crash", value |-> 0]

\* A read through a null or out-of-bounds pointer is undefined: the process
\* dies, or the read yields whatever the memory holds.
WildRead == {Crashed, Returned(0)}

\* Cubemap::readTexel: the outcomes of readTexel(face, x, y) on the faces fs.
readTexel(fs, face, x, y) ==
    IF ~(face < NUM_FACES) THEN {AssertFailed}
    ELSE IF face < 0 THEN WildRead
    ELSE LET face_img == fs[face]
             idx == y * face_img.width + x
         IN  IF ~(x < face_img.width) THEN {AssertFailed}
             ELSE IF ~(y < face_img.height) THEN {AssertFailed}
             ELSE IF face_img.null \/ idx < 0 \/ idx >= Len(face_img.data)
                 THEN WildRead
                 ELSE {Returned(face_img.data[idx + 1])}

\* static_cast<int>(p): truncation, or anything at all for a NaN.
ToInt(p) == IF IsNaN(p) THEN IndetInts ELSE {FTrunc(p)}

\* SampleCoords without the std::min against width - 1 and height - 1.
SampleCoordsUnclamped(face_img, s, t) ==
    {<<i, j>> :
        i \in ToInt(FMul(s, FInt(face_img.width))),
        j \in ToInt(FMul(t, FInt(face_img.height)))}

\* Cubemap::sampleFace, lines 106-107: the texel (x, y) of (s, t).
SampleCoords(face_img, s, t) ==
    {<<IMin(i, face_img.width - 1), IMin(j, face_img.height - 1)>> :
        i \in ToInt(FMul(s, FInt(face_img.width))),
        j \in ToInt(FMul(t, FInt(face_img.height)))}

\* Cubemap::sampleFace: the readTexel calls sampleFace(face, s, t) can make,
\* each with its outcome.
sampleFace(fs, face, s, t) ==
    UNION {{[x |-> c[1], y |-> c[2], out |-> o] : o \in readTexel(fs, face, c[1], c[2])} :
              c \in SampleCoords(fs[face], s, t)}

\* ------------------------------------------------------------------ main

\* unlerp without the half: the pixel's corner, not its centre.
unlerpCorner(val, max) == FDiv(FInt(val), FInt(max))

\* unlerp
unlerp(val, max) == FDiv(FAdd(FInt(val), FHalf), FInt(max))

\* s - s*s + t - t*t
Spread(s, t) == FSub(FAdd(FSub(s, FMul(s, s)), t), FMul(t, t))

\* main, line 136
RevP(s, t) == FSub(FMul(FInt(16), Spread(s, t)), FInt(4))

\* Direction with the front pole (0, 0, 1) for rev_p < 0.
DirectionFrontPole(s, t) ==
    IF FLess(RevP(s, t), FInt(0))
        THEN <<FInt(0), FInt(0), FInt(1)>>
        ELSE LET rev_p_sqrt == FSqrt(RevP(s, t))
             IN  <<FMul(rev_p_sqrt, FSub(FMul(FInt(2), s), FInt(1))),
                   FMul(rev_p_sqrt, FNeg(FSub(FMul(FInt(2), t), FInt(1)))),
                   FSub(FMul(FInt(8), Spread(s, t)), FInt(3))>>

\* main, lines 137-146: <<vx, vy, vz>> of the pixel at (s, t).
Direction(s, t) ==
    IF FLess(RevP(s, t), FInt(0))
        THEN <<FInt(0), FInt(0), FInt(-1)>>
        ELSE LET rev_p_sqrt == FSqrt(RevP(s, t))
             IN  <<FMul(rev_p_sqrt, FSub(FMul(FInt(2), s), FInt(1))),
                   FMul(rev_p_sqrt, FNeg(FSub(FMul(FInt(2), t), FInt(1)))),
                   FSub(FMul(FInt(8), Spread(s, t)), FInt(3))>>

\* ----------------------------------------------------------------- state

VARIABLES
    pc,           \* where the program is
    argc,         \* main's argc
    argv3,        \* std::stoi(argv[3])
    files,        \* the six image files: [ok, width, height] per face
    faces,        \* Cubemap::faces
    loaded,       \* how many Image(filename) the Cubemap constructor has built
    output_size,  \* main's output_size
    out_data,     \* main's out_data, indexed from 0
    stores,       \* how often each index of out_data has been assigned
    x, y,         \* the loop variables of main
    rev_p,        \* main's rev_p
    vx, vy, vz,   \* the direction handed to computeTexCoords
    cube_face, tex_s, tex_t,  \* what computeTexCoords gave
    read,         \* the last readTexel call: [x, y, out]
    bmp_writes    \* how many times stbi_write_bmp has been called

vars == <<pc, argc, argv3, files, faces, loaded, output_size, out_data, stores,
          x, y, rev_p, vx, vy, vz, cube_face, tex_s, tex_t, read, bmp_writes>>

NoRead == [x |-> 0, y |-> 0, out |-> Returned(0)]

\* The files a run may find.  All six decode, five to width x height and one to
\* height x width; or one is missing and the others are squares of MaxDim.
FileSystems ==
    LET Good(w, h) == [ok |-> TRUE, width |-> w, height |-> h]
        Missing == [ok |-> FALSE, width |-> 0, height |-> 0]
    IN  {[f \in Faces |-> IF f = odd THEN Good(h, w) ELSE Good(w, h)] :
            odd \in Faces, w \in 1..MaxDim, h \in 1..MaxDim}
        \cup {[f \in Faces |-> IF f = odd THEN Missing ELSE Good(MaxDim, MaxDim)] :
                 odd \in Faces}

\* The locals of main before they are assigned.
Locals ==
    /\ loaded = 0
    /\ output_size = 0
    /\ out_data = <<>>
    /\ stores = <<>>
    /\ x = 0
    /\ y = 0
    /\ rev_p = FInt(0)
    /\ vx = FInt(0)
    /\ vy = FInt(0)
    /\ vz = FInt(0)
    /\ cube_face = 0
    /\ tex_s = FInt(0)
    /\ tex_t = FInt(0)
    /\ read = NoRead
    /\ bmp_writes = 0

Init ==
    /\ pc = "main"
    /\ argc \in 3..5
    /\ argv3 \in 0..MaxOutputSize
    /\ files \in FileSystems
    /\ faces = [f \in Faces |-> DefaultImage]
    /\ Locals

\* main, lines 117-118: the wrong number of arguments.
Usage ==
    /\ pc = "main"
    /\ argc # 4
    /\ pc' = "exit1"
    /\ UNCHANGED <<argc, argv3, files, faces, loaded, output_size, out_data, stores,
                   x, y, rev_p, vx, vy, vz, cube_face, tex_s, tex_t, read, bmp_writes>>

\* main, lines 120-125: the arguments are read and out_data is allocated.
Start ==
    /\ pc = "main"
    /\ ~(argc # 4)
    /\ output_size' = argv3
    /\ out_data' = [i \in 0..(argv3 * argv3 - 1) |-> 0]
    /\ stores' = [i \in 0..(argv3 * argv3 - 1) |-> 0]
    /\ pc' = "load"
    /\ UNCHANGED <<argc, argv3, files, faces, loaded,
                   x, y, rev_p, vx, vy, vz, cube_face, tex_s, tex_t, read, bmp_writes>>

\* Cubemap::Cubemap, lines 49-54: the next face is decoded and moved into
\* faces; after the sixth, main enters its loop with y = 0, x = 0.
LoadFace ==
    /\ pc = "load"
    /\ \E img \in Decode(loaded, files[loaded]) :
           faces' = [faces EXCEPT ![loaded] = img]
    /\ loaded' = loaded + 1
    /\ pc' = IF loaded + 1 = NUM_FACES THEN "loop" ELSE "load"
    /\ x' = 0
    /\ y' = 0
    /\ UNCHANGED <<argc, argv3, files, output_size, out_data, stores,
                   rev_p, vx, vy, vz, cube_face, tex_s, tex_t, read, bmp_writes>>

\* main, lines 132-150: the direction of pixel (x, y) and its face and (s, t).
\* (s, t, the direction and the result are each bound to their value once.)
Classify ==
    /\ pc = "loop"
    /\ y < output_size
    /\ \E s \in {unlerp(x, output_size)}, t \in {unlerp(y, output_size)} :
         \E v \in {Direction(s, t)} : \E tc \in {computeTexCoords(v[1], v[2], v[3])} :
           /\ rev_p' = RevP(s, t)
           /\ vx' = v[1]
           /\ vy' = v[2]
           /\ vz' = v[3]
           /\ cube_face' = tc.face
           /\ tex_s' = tc.s
           /\ tex_t' = tc.t
    /\ pc' = "sample"
    /\ UNCHANGED <<argc, argv3, files, faces, loaded, output_size, out_data, stores,
                   x, y, read, bmp_writes>>

\* The loop variables after the body of pixel (i, j).
NextPixel(i, j) == IF i + 1 < output_size THEN <<i + 1, j>> ELSE <<0, j + 1>>

\* OutIndex with x and y exchanged.
OutIndexTransposed(i, j) == i * output_size + j

\* main, line 152: the index of pixel (i, j) in out_data.
OutIndex(i, j) == j * output_size + i

\* main, line 152: the face is sampled and the colour stored; a failed assert
\* or a crash ends the program.
Sample ==
    /\ pc = "sample"
    /\ \E r \in sampleFace(faces, cube_face, tex_s, tex_t) :
           /\ read' = r
           /\ IF r.out.kind = "value"
                  THEN /\ out_data' = [out_data EXCEPT ![OutIndex(x, y)] = r.out.value]
                       /\ stores' = [stores EXCEPT ![OutIndex(x, y)] = @ + 1]
                       /\ x' = NextPixel(x, y)[1]
                       /\ y' = NextPixel(x, y)[2]
                       /\ pc' = "loop"
                  ELSE /\ pc' = IF r.out.kind = "assert" THEN "abort" ELSE "crash"
                       /\ UNCHANGED <<out_data, stores, x, y>>
    /\ UNCHANGED <<argc, argv3, files, faces, loaded, output_size,
                   rev_p, vx, vy, vz, cube_face, tex_s, tex_t, bmp_writes>>

\* WriteBmp leaving the loop one row early.
WriteBmpEarly ==
    /\ pc = "loop"
    /\ ~(y < output_size - 1)
    /\ bmp_writes' = bmp_writes + 1
    /\ pc' = "done"
    /\ UNCHANGED <<argc, argv3, files, faces, loaded, output_size, out_data, stores,
                   x, y, rev_p, vx, vy, vz, cube_face, tex_s, tex_t, read>>

\* main, line 157: after the loop, the bitmap is written and main returns.
WriteBmp ==
    /\ pc = "loop"
    /\ ~(y < output_size)
    /\ bmp_writes' = bmp_writes + 1
    /\ pc' = "done"
    /\ UNCHANGED <<argc, argv3, files, faces, loaded, output_size, out_data, stores,
                   x, y, rev_p, vx, vy, vz, cube_face, tex_s, tex_t, read>>

Next == Usage \/ Start \/ LoadFace \/ Classify \/ Sample \/ WriteBmp

Spec == Init /\ [][Next]_vars

\* ------------------------------------------- computeTexCoords on its own

\* The directions computeTexCoords is called on: integer components.
Dirs == {FInt(i) : i \in -DirBound..DirBound}

\* The variables of main that a call of a Cubemap method on its own leaves alone.
NoMain ==
    /\ argc = 4
    /\ argv3 = 0
    /\ loaded = NUM_FACES
    /\ output_size = 0
    /\ out_data = <<>>
    /\ stores = <<>>
    /\ x = 0
    /\ y = 0
    /\ rev_p = FInt(0)
    /\ bmp_writes = 0

InitTexCoords ==
    /\ pc = "tex_call"
    /\ NoMain
    /\ files = [f \in Faces |-> [ok |-> TRUE, width |-> 1, height |-> 1]]
    /\ faces = [f \in Faces |-> DefaultImage]
    /\ vx \in Dirs
    /\ vy \in Dirs
    /\ vz \in Dirs
    /\ cube_face = 0
    /\ tex_s = FInt(0)
    /\ tex_t = FInt(0)
    /\ read = NoRead

\* computeTexCoords(vx, vy, vz, cube_face, tex_s, tex_t)
CallComputeTexCoords ==
    /\ pc = "tex_call"
    /\ \E tc \in {computeTexCoords(vx, vy, vz)} :
           /\ cube_face' = tc.face
           /\ tex_s' = tc.s
           /\ tex_t' = tc.t
    /\ pc' = "tex_ret"
    /\ UNCHANGED <<argc, argv3, files, faces, loaded, output_size, out_data, stores,
                   x, y, rev_p, vx, vy, vz, read, bmp_writes>>

SpecTexCoords == InitTexCoords /\ [][CallComputeTexCoords]_vars

\* The integer components of the direction of a computeTexCoords call.
DirInts == <<vx.a.n, vy.a.n, vz.a.n>>

\* C1: computeTexCoords is total on nonzero directions and selects exactly one
\* face: the major axis is the first of x, y, z whose magnitude is the largest,
\* and the face is 2*axis for a component >= 0 and 2*axis+1 for a negative
\* one, in the order +X, -X, +Y, -Y, +Z, -Z.
C1_FaceSelection ==
    (pc = "tex_ret" /\ DirInts # <<0, 0, 0>>) =>
        LET c == DirInts
            largest == CHOOSE m \in {IAbs(c[i]) : i \in 1..3} :
                           \A i \in 1..3 : IAbs(c[i]) <= m
            axis == CHOOSE i \in 1..3 :
                        /\ IAbs(c[i]) = largest
                        /\ \A j \in 1..(i - 1) : IAbs(c[j]) < largest
        IN  /\ cube_face \in Faces
            /\ cube_face = 2 * (axis - 1) + (IF c[axis] < 0 THEN 1 ELSE 0)
            /\ ~IsNaN(tex_s)
            /\ ~IsNaN(tex_t)

\* C1's case: a three-way tie of magnitudes with a negative x goes to -X.
C1_Witness ==
    /\ pc = "tex_ret"
    /\ DirInts = <<-DirBound, DirBound, -DirBound>>
    /\ cube_face = FACE_NEG_X

\* C2: for a nonzero direction s = 0.5*(raw_s/m + 1) and t = 0.5*(raw_t/m + 1),
\* m the magnitude of the major component and (raw_s, raw_t) from the table
\* +X: -z,-y; -X: z,-y; +Y: x,z; -Y: x,-z; +Z: x,-y; -Z: -x,-y; so each of the
\* six canonical directions gives its own face with (s, t) = (0.5, 0.5).
C2_TexCoords ==
    (pc = "tex_ret" /\ DirInts # <<0, 0, 0>>) =>
        LET c == DirInts
            m == IAbs(c[(cube_face \div 2) + 1])
            raw == CASE cube_face = FACE_POS_X -> <<-c[3], -c[2]>>
                     [] cube_face = FACE_NEG_X -> <<c[3], -c[2]>>
                     [] cube_face = FACE_POS_Y -> <<c[1], c[3]>>
                     [] cube_face = FACE_NEG_Y -> <<c[1], -c[3]>>
                     [] cube_face = FACE_POS_Z -> <<c[1], -c[2]>>
                     [] cube_face = FACE_NEG_Z -> <<-c[1], -c[2]>>
            canonical == [f \in Faces |->
                             [i \in 1..3 |-> IF i = (f \div 2) + 1
                                                THEN (IF f % 2 = 0 THEN 1 ELSE -1)
                                                ELSE 0]]
        IN  /\ tex_s = FRat(Rat(raw[1] + m, 2 * m))
            /\ tex_t = FRat(Rat(raw[2] + m, 2 * m))
            /\ \A f \in Faces :
                   c = canonical[f] =>
                       cube_face = f /\ tex_s = FHalf /\ tex_t = FHalf

\* C2's case: (1, -2, 1) lies on -Y at (s, t) = (3/4, 1/4).
C2_Witness ==
    /\ pc = "tex_ret"
    /\ DirInts = <<1, -2, 1>>
    /\ cube_face = FACE_NEG_Y
    /\ tex_s = FRat(Rat(3, 4))
    /\ tex_t = FRat(Rat(1, 4))

\* ------------------------------------- readTexel and sampleFace on their own

\* The cubemap the two are called on: six decoded files, +X of height x width
\* and the others of width x height.
SampleFiles ==
    {[f \in Faces |-> IF f = FACE_POS_X
                          THEN [ok |-> TRUE, width |-> h, height |-> w]
                          ELSE [ok |-> TRUE, width |-> w, height |-> h]] :
        w \in 1..MaxDim, h \in 1..MaxDim}

\* Cubemap::Cubemap on files that all decode.
Constructed(fs) == [f \in Faces |-> CHOOSE img \in Decode(f, fs[f]) : TRUE]

\* The (s, t) of a sampleFace call on a face n texels wide: the texel centres
\* and edges, and values below 0 and above 1.
Coords(n) == {FRat(Rat(k, 2 * n)) : k \in -2..(2 * n + 1)}

\* A call readTexel(cube_face, read.x, read.y), the face any CubeFace (NUM_FACES
\* too) and x, y from -1 to MaxDim; or a call sampleFace(cube_face, tex_s, tex_t).
InitSample ==
    /\ NoMain
    /\ files \in SampleFiles
    /\ faces = Constructed(files)
    /\ vx = FInt(0)
    /\ vy = FInt(0)
    /\ vz = FInt(0)
    /\ \/ /\ pc = "read_call"
          /\ cube_face \in 0..NUM_FACES
          /\ read \in {[x |-> i, y |-> j, out |-> Returned(0)] :
                          i \in -1..MaxDim, j \in -1..MaxDim}
          /\ tex_s = FInt(0)
          /\ tex_t = FInt(0)
       \/ /\ pc = "sample_call"
          /\ cube_face \in Faces
          /\ tex_s \in Coords(faces[cube_face].width)
          /\ tex_t \in Coords(faces[cube_face].height)
          /\ read = NoRead

\* readTexel(cube_face, read.x, read.y)
CallReadTexel ==
    /\ pc = "read_call"
    /\ \E o \in readTexel(faces, cube_face, read.x, read.y) :
           read' = [read EXCEPT !.out = o]
    /\ pc' = "read_ret"
    /\ UNCHANGED <<argc, argv3, files, faces, loaded, output_size, out_data, stores,
                   x, y, rev_p, vx, vy, vz, cube_face, tex_s, tex_t, bmp_writes>>

\* sampleFace(cube_face, tex_s, tex_t)
CallSampleFace ==
    /\ pc = "sample_call"
    /\ \E r \in sampleFace(faces, cube_face, tex_s, tex_t) : read' = r
    /\ pc' = "sample_ret"
    /\ UNCHANGED <<argc, argv3, files, faces, loaded, output_size, out_data, stores,
                   x, y, rev_p, vx, vy, vz, cube_face, tex_s, tex_t, bmp_writes>>

NextSample == CallReadTexel \/ CallSampleFace

SpecSample == InitSample /\ [][NextSample]_vars

\* C6: readTexel(face, x, y) fails an assertion, returning nothing, whenever
\* 0 <= x < width, 0 <= y < height or the validity of face is violated, a
\* negative x or y included; otherwise it returns the colour at y*width + x.
C6_ReadTexelContract ==
    pc = "read_ret" =>
        LET valid == /\ cube_face \in Faces
                     /\ 0 <= read.x /\ read.x < faces[cube_face].width
                     /\ 0 <= read.y /\ read.y < faces[cube_face].height
        IN  IF valid
                THEN read.out = Returned(Color(cube_face,
                                     read.y * faces[cube_face].width + read.x))
                ELSE read.out = AssertFailed

\* n/d truncated toward zero, and rounded down (d > 0).
TruncDiv(n, d) == ISign(n) * (IAbs(n) \div d)
FloorDiv(n, d) == IF n >= 0 THEN n \div d ELSE -((-n + d - 1) \div d)

\* C8 as stated: sampleFace(face, s, t) returns readTexel(face, x, y) with
\* x = min(floor(s*width), width-1), y = min(floor(t*height), height-1); at a
\* texel's centre ((i+0.5)/width, (j+0.5)/height) it returns readTexel(face, i, j).
C8_SampleFaceFloor ==
    pc = "sample_ret" =>
        LET w == faces[cube_face].width
            h == faces[cube_face].height
        IN  /\ read.x = IMin(FloorDiv(tex_s.a.n * w, tex_s.a.d), w - 1)
            /\ read.y = IMin(FloorDiv(tex_t.a.n * h, tex_t.a.d), h - 1)
            /\ read.out \in readTexel(faces, cube_face, read.x, read.y)
            /\ \A i \in 0..(w - 1), j \in 0..(h - 1) :
                   (tex_s = FRat(Rat(2 * i + 1, 2 * w)) /\ tex_t = FRat(Rat(2 * j + 1, 2 * h)))
                       => read.out = Returned(Color(cube_face, j * w + i))

\* C8 amended: the same with s*width and t*height truncated toward zero, which
\* is floor only for s, t >= 0.
C8_SampleFaceTrunc ==
    pc = "sample_ret" =>
        LET w == faces[cube_face].width
            h == faces[cube_face].height
        IN  /\ read.x = IMin(TruncDiv(tex_s.a.n * w, tex_s.a.d), w - 1)
            /\ read.y = IMin(TruncDiv(tex_t.a.n * h, tex_t.a.d), h - 1)
            /\ read.out \in readTexel(faces, cube_face, read.x, read.y)
            /\ \A i \in 0..(w - 1), j \in 0..(h - 1) :
                   (tex_s = FRat(Rat(2 * i + 1, 2 * w)) /\ tex_t = FRat(Rat(2 * j + 1, 2 * h)))
                       => read.out = Returned(Color(cube_face, j * w + i))

\* C8's case: a face at least two texels wide and high, sampled at the centre
\* of its texel (1, 1).
C8_Witness ==
    /\ pc = "sample_ret"
    /\ faces[cube_face].width >= 2
    /\ faces[cube_face].height >= 2
    /\ tex_s = FRat(Rat(3, 2 * faces[cube_face].width))
    /\ tex_t = FRat(Rat(3, 2 * faces[cube_face].height))
    /\ read = [x |-> 1, y |-> 1,
               out |-> Returned(Color(cube_face, faces[cube_face].width + 1))]

\* -------------------------------------------------- properties of main

\* Every file decodes.
AllDecoded == \A f \in Faces : files[f].ok

\* The colours the six files hold.
Texels ==
    UNION {{Color(f, k) : k \in 0..(files[f].width * files[f].height - 1)} : f \in Faces}

\* The colour sampleFace gives at s = t = 0.5 on the decoded face f.
CentreTexel(f) ==
    Color(f, (files[f].height \div 2) * files[f].width + (files[f].width \div 2))

\* The readTexel call recorded in read was in range on face f and returned
\* that texel.
ReadInRange(f) ==
    /\ f \in Faces
    /\ read.x \in 0..(faces[f].width - 1)
    /\ read.y \in 0..(faces[f].height - 1)
    /\ read.out = Returned(Color(f, read.y * files[f].width + read.x))

\* C3: for output_size N >= 1 and six decoded faces the loop fills a buffer of
\* exactly N*N entries, writes the colour of pixel (x, y) at index y*N + x,
\* each index exactly once, and every stored entry is a texel some readTexel
\* call returned from in-range coordinates.
C3_Generate ==
    (AllDecoded /\ output_size >= 1 /\ pc \in {"loop", "sample", "done"}) =>
        LET n == output_size
            filled == y * n + x
        IN  /\ DOMAIN out_data = 0..(n * n - 1)
            /\ \A i \in 0..(n * n - 1) :
                   /\ stores[i] = (IF i < filled THEN 1 ELSE 0)
                   /\ i < filled => out_data[i] \in Texels
                   /\ i >= filled => out_data[i] = 0
            /\ (pc = "loop" /\ filled > 0) =>
                   /\ ReadInRange(cube_face)
                   /\ out_data[filled - 1] = read.out.value
            /\ pc = "done" => filled = n * n

\* C3's case: a finished image of at least 2 x 2 pixels with texels of two faces.
C3_Witness ==
    /\ pc = "done"
    /\ AllDecoded
    /\ output_size >= 2
    /\ \E i, j \in DOMAIN out_data : out_data[i] \div 100 # out_data[j] \div 100

\* The four corner pixels, and rev_p of pixel (x, y) computed in integers:
\* with u = 2x+1, v = 2y+1, d = 2N it is (16*(u(d-u) + v(d-v)) - 4d^2) / d^2.
Corners == {<<i, j>> : i \in {0, output_size - 1}, j \in {0, output_size - 1}}
RevPOfPixel ==
    LET u == 2 * x + 1
        v == 2 * y + 1
        d == 2 * output_size
    IN  FRat(Rat(16 * (u * (d - u) + v * (d - v)) - 4 * d * d, d * d))

\* What C4 says of the corner pixels of an image of at least `least` pixels a side.
CornersAtBackPole(least) ==
    /\ (pc = "sample" /\ output_size >= least /\ <<x, y>> \in Corners) =>
           /\ rev_p = RevPOfPixel
           /\ FLess(rev_p, FInt(0))
           /\ <<vx, vy, vz>> = <<FInt(0), FInt(0), FInt(-1)>>
           /\ cube_face = FACE_NEG_Z
           /\ tex_s = FHalf
           /\ tex_t = FHalf
    /\ (pc \in {"loop", "sample", "done"} /\ output_size >= least /\ files[FACE_NEG_Z].ok) =>
           \A c \in Corners :
               stores[OutIndex(c[1], c[2])] = 1 =>
                   out_data[OutIndex(c[1], c[2])] = CentreTexel(FACE_NEG_Z)

\* C4 as stated: whatever output_size is, each corner pixel has rev_p < 0, gets
\* the direction (0, 0, -1) and is assigned the centre texel of face -Z.
C4_CornersAnySize == CornersAtBackPole(1)

\* C4 amended: so it is for output_size >= 4.
C4_CornersFrom4 == CornersAtBackPole(4)

\* C4's case: a finished image of 4 x 4 or more whose last pixel, a corner,
\* holds the centre texel of -Z.
C4_Witness ==
    /\ pc = "done"
    /\ output_size >= 4
    /\ files[FACE_NEG_Z].ok
    /\ out_data[output_size * output_size - 1] = CentreTexel(FACE_NEG_Z)

\* C5: for output_size = 1, and for the centre pixel of any odd output_size,
\* s = t = 0.5, rev_p = 4, the direction is (0, 0, 1), the face +Z with
\* (s, t) = (0.5, 0.5), and the pixel gets the centre texel of +Z.
C5_Centre ==
    output_size % 2 = 1 =>
        LET c == (output_size - 1) \div 2
        IN  /\ (pc = "sample" /\ x = c /\ y = c) =>
                   /\ unlerp(x, output_size) = FHalf
                   /\ rev_p = FInt(4)
                   /\ <<vx, vy, vz>> = <<FInt(0), FInt(0), FInt(1)>>
                   /\ cube_face = FACE_POS_Z
                   /\ tex_s = FHalf
                   /\ tex_t = FHalf
            /\ (pc \in {"loop", "sample", "done"} /\ files[FACE_POS_Z].ok
                    /\ stores[OutIndex(c, c)] = 1) =>
                   out_data[OutIndex(c, c)] = CentreTexel(FACE_POS_Z)

\* C5's case: the single pixel of a 1 x 1 image holds the centre texel of a
\* +Z of 2 x 2 texels, its texel (1, 1).
C5_Witness ==
    /\ pc = "done"
    /\ output_size = 1
    /\ files[FACE_POS_Z].ok
    /\ files[FACE_POS_Z].width >= 2
    /\ files[FACE_POS_Z].height >= 2
    /\ out_data[0] = CentreTexel(FACE_POS_Z)

\* C7: when the decoding of a face fails, loading fails and nothing is
\* sampled: no computeTexCoords, sampleFace or readTexel call is made on a
\* cubemap with a face that was not decoded.
C7_NoSamplingAfterFailedDecode ==
    pc = "sample" => \A f \in Faces : ~faces[f].null

\* A step taken in the loop leaves the faces and the count of loads alone and
\* writes the file only when it leaves the loop, after the last row.
LoopStepKeepsIo ==
    pc \in {"loop", "sample"} =>
        (/\ faces' = faces
         /\ loaded' = loaded
         /\ bmp_writes' = (IF pc' = "done" THEN 1 ELSE 0)
         /\ pc' = "done" => ~(y < output_size))

\* C9: all six loads come before the first pixel is sampled; nothing is loaded
\* or written to a file and no face image changes while pixels are computed;
\* the output file is written once, only after the last pixel is stored.
C9_IoOrder ==
    /\ [](pc = "sample" => (loaded = NUM_FACES /\ bmp_writes = 0))
    /\ [](bmp_writes = (IF pc = "done" THEN 1 ELSE 0))
    /\ [](bmp_writes = 1 => \A i \in DOMAIN stores : stores[i] >= 1)
    /\ [][LoopStepKeepsIo]_vars

\* C9's case: a finished image of several pixels, written once.
C9_Witness ==
    /\ pc = "done"
    /\ output_size >= 2
    /\ loaded = NUM_FACES
    /\ bmp_writes = 1
    /\ \A i \in DOMAIN stores : stores[i] = 1

\* C10: with six decoded faces every direction handed to computeTexCoords is
\* nonzero, its (s, t) lie in [0, 1], and every readTexel call of the loop has
\* a face in 0..5, 0 <= x < width and 0 <= y < height: no assertion fails and
\* nothing is read out of bounds.
C10_InRange ==
    AllDecoded =>
        /\ pc \notin {"abort", "crash"}
        /\ pc = "sample" =>
               /\ \E c \in {vx, vy, vz} : FSign(c) # 0
               /\ cube_face \in Faces
               /\ FGeq(tex_s, FInt(0)) /\ FGeq(FInt(1), tex_s)
               /\ FGeq(tex_t, FInt(0)) /\ FGeq(FInt(1), tex_t)
        /\ (pc = "loop" /\ y * output_size + x > 0) => ReadInRange(cube_face)

\* C10's case: a pixel on a cube edge, whose t = 1 is clamped to the last row
\* of a face two texels high.
C10_Witness ==
    /\ pc = "loop"
    /\ AllDecoded
    /\ y * output_size + x > 0
    /\ tex_t = FInt(1)
    /\ faces[cube_face].height = 2
    /\ read.y = 1

=============================================================================
